---- MODULE Spec2Model ----
(***************************************************************************)
(* Model of plum/core.py: the Variable / Function graph, the invocation    *)
(* protocol Function.__call__, Variable.backward and the Config scopes.    *)
(*                                                                         *)
(* Objects live in two heaps, `variables` and `functions`; a reference is  *)
(* the index of the object in its heap and None is 0.  Arrays are          *)
(* zero-dimensional integer arrays: data is an integer, a gradient is      *)
(* NoGrad (Python None) or a one-element sequence holding the integer.     *)
(* The concrete operations modelled are Add, Mul and Neg, called through   *)
(* the free functions add, mul and neg, which build a fresh Function       *)
(* object for every call.  The caller's program is any sequence of at most *)
(* MaxVars constructions and invocations and at most MaxCalls calls of      *)
(* backward, unchain, cleargrad and no_grad.  An array handed to a free    *)
(* function is wrapped by as_variable into a Variable without creator,     *)
(* which is what NewVariable followed by Call gives.                        *)
(*                                                                         *)
(* Const and Pair are Functions the caller defines by subclassing Function: *)
(* Const.forward() takes no input and returns an array, Pair.forward(x)     *)
(* returns the tuple (x, -x).  `held` is the set of Variables the caller    *)
(* still has a name for; an object is freed when the last strong reference  *)
(* to it goes (CPython's reference counts), and a weak reference to a freed *)
(* Variable gives None.  Freed objects keep their place in the heaps so     *)
(* that indices stay valid.                                                 *)
(***************************************************************************)
EXTENDS Integers, Sequences, FiniteSets

\* ---- bounds ------------------------------------------------------------
MaxVars == 4
MaxCalls == 2
MaxScopes == 1
MaxDepth == 3
MaxThreads == 2

\* data of the Variables the caller constructs
Data == {2, 3}

None == 0
NoGrad == << >>
Arr(n) == << n >>
Val(g) == g[1]

FlagNames == {"enable_backprop", "train"}
OpTypes == {"Add", "Mul", "Neg"}
\* Functions defined by the caller
UserOpTypes == {"Const", "Pair"}

VARIABLES
  Config,       \* class Config: [enable_backprop, train]
  scopes,       \* active using_config generators, innermost last
  exc,          \* an exception is propagating out of the innermost scope
  variables,    \* heap of Variable objects
  functions,    \* heap of Function objects that were linked into the graph
  pc,           \* "idle" | "loop" (inside backward's while) | "done" | "raised"
  self,         \* the Variable backward() was called on
  retain_grad,  \* backward's argument
  funcs,        \* backward's local list
  seen_set,     \* backward's local set
  grad0,        \* history: the gradients when backward() was called
  order,        \* history: the Functions popped by this pass, in order
  calls,        \* number of calls made on Variables and scopes entered so far
  held,         \* the Variables the caller holds a reference to
  threads       \* per thread: where it is in its with-block and its locals

vars == << Config, scopes, exc, variables, functions, pc, self, retain_grad,
           funcs, seen_set, grad0, order, calls, held, threads >>

cfgVars == << Config, scopes, exc >>
heapVars == << variables, functions >>
frameVars == << pc, self, retain_grad, funcs, seen_set, grad0, order >>

\* ---- helpers -----------------------------------------------------------
Max(S) == CHOOSE m \in S : \A n \in S : n <= m
Min(S) == CHOOSE m \in S : \A n \in S : m <= n

VarIds == 1..Len(variables)
FuncIds == 1..Len(functions)

\* ---- class Config and using_config ------------------------------------
ConfigDefault == [enable_backprop |-> TRUE, train |-> TRUE]

\* the value the finally clause writes back
RestoredOpposite(frame) == ~frame.value
RestoredValue(frame) == frame.old_value

\* using_config up to the yield
EnterScope(name, value) ==
  /\ scopes' = Append(scopes, [name |-> name, value |-> value,
                               old_value |-> Config[name], pre |-> Config])
  /\ Config' = [Config EXCEPT ![name] = value]

\* using_config's finally clause, run when the innermost with-block is left
LeaveScope ==
  LET frame == scopes[Len(scopes)]
  IN /\ Config' = [Config EXCEPT ![frame.name] = RestoredValue(frame)]
     /\ scopes' = SubSeq(scopes, 1, Len(scopes) - 1)

\* ---- using_config run by several threads -------------------------------
\* Each thread runs one `with using_config(name, value):` block on the class
\* Config they all share; a thread can be switched out between any two
\* statements.  pc is "out" before the block, "read" after line 19, "in"
\* after line 20 (inside the block) and "exited" after the finally clause.
\* read_at, set_at and left_at number the steps of all threads together.
Threads == 1..MaxThreads

ThreadInit ==
  [pc |-> "out", name |-> "enable_backprop", value |-> TRUE,
   old_value |-> TRUE, read_at |-> 0, set_at |-> 0, left_at |-> 0]

StepsDone(t) ==
  CASE threads[t].pc = "out" -> 0
    [] threads[t].pc = "read" -> 1
    [] threads[t].pc = "in" -> 2
    [] threads[t].pc = "exited" -> 3

RECURSIVE StepsUpTo(_)
StepsUpTo(t) == IF t = 0 THEN 0 ELSE StepsDone(t) + StepsUpTo(t - 1)

\* the number of the step about to be taken
Now == StepsUpTo(MaxThreads) + 1

\* old_value = getattr(Config, name)
ThreadRead(t, name, value) ==
  /\ threads[t].pc = "out"
  /\ threads' = [threads EXCEPT ![t] =
                   [@ EXCEPT !.pc = "read", !.name = name, !.value = value,
                             !.old_value = Config[name], !.read_at = Now]]
  /\ UNCHANGED << Config, scopes, exc, heapVars, frameVars, calls, held >>

\* setattr(Config, name, value), up to the yield
ThreadSet(t) ==
  /\ threads[t].pc = "read"
  /\ Config' = [Config EXCEPT ![threads[t].name] = threads[t].value]
  /\ threads' = [threads EXCEPT ![t] = [@ EXCEPT !.pc = "in", !.set_at = Now]]
  /\ UNCHANGED << scopes, exc, heapVars, frameVars, calls, held >>

\* the with-block is left: setattr(Config, name, old_value)
ThreadExit(t) ==
  /\ threads[t].pc = "in"
  /\ Config' = [Config EXCEPT ![threads[t].name] = RestoredValue(threads[t])]
  /\ threads' = [threads EXCEPT ![t] =
                   [@ EXCEPT !.pc = "exited", !.left_at = Now]]
  /\ UNCHANGED << scopes, exc, heapVars, frameVars, calls, held >>

\* ---- class Variable ----------------------------------------------------
Variable(data) ==
  [data |-> data, grad |-> NoGrad, creator |-> None, generation |-> 0]

set_creator(v, creator, creator_generation) ==
  [v EXCEPT !.creator = creator, !.generation = creator_generation + 1]

unchain_and_clear(v) == [v EXCEPT !.creator = None, !.grad = NoGrad]
unchain(v) == [v EXCEPT !.creator = None]

cleargrad_and_unchain(v) == [v EXCEPT !.grad = NoGrad, !.creator = None]
cleargrad(v) == [v EXCEPT !.grad = NoGrad]

zeros_like(data) == Arr(0)
no_seed(data) == NoGrad
ones_like(data) == Arr(1)

\* ---- the concrete Functions -------------------------------------------
Arity(type) ==
  CASE type = "Const" -> 0
    [] type \in {"Neg", "Pair"} -> 1
    [] OTHER -> 2

\* the number of arrays forward returns
NumOutputs(type) == IF type = "Pair" THEN 2 ELSE 1

forward(type, xs) ==
  CASE type = "Add" -> xs[1] + xs[2]
    [] type = "Mul" -> xs[1] * xs[2]
    [] type = "Neg" -> 0 - xs[1]
    [] type = "Const" -> 2
    [] type = "Pair" -> << xs[1], 0 - xs[1] >>

\* `if not isinstance(ys, tuple): ys = (ys, )`
AsTuple(type, ys) == IF type = "Pair" THEN ys ELSE << ys >>

\* Mul and Neg do arithmetic on gy; on None that is a TypeError
backward_raises(type, gys) == type \in {"Mul", "Neg"} /\ gys[1] = NoGrad

\* gxs, as a tuple with one entry per input
backward(f, gys) ==
  LET gy == gys[1]
      x0 == variables[f.inputs[1]].data
      x1 == variables[f.inputs[2]].data
  IN CASE f.type = "Add" -> << gy, gy >>
       [] f.type = "Mul" -> << Arr(Val(gy) * x1), Arr(Val(gy) * x0) >>
       [] f.type = "Neg" -> << Arr(0 - Val(gy)) >>
       [] f.type = "Pair" ->
            << Arr((IF gys[1] = NoGrad THEN 0 ELSE Val(gys[1]))
                     - (IF gys[2] = NoGrad THEN 0 ELSE Val(gys[2]))) >>

\* ---- Function.__call__ -------------------------------------------------
FunctionGenerationMin(inputs) ==
  Min({variables[inputs[i]].generation : i \in DOMAIN inputs})

\* max([x.generation for x in inputs])
FunctionGeneration(inputs) ==
  Max({variables[inputs[i]].generation : i \in DOMAIN inputs})

\* `if Config.enable_backprop`
EnableBackpropIgnored == TRUE
EnableBackprop == Config.enable_backprop

\* max() of an empty list raises ValueError
FunctionCallRaises(type, inputs) == EnableBackprop /\ inputs = << >>

FunctionCall(type, inputs) ==
  LET xs == [i \in DOMAIN inputs |-> variables[inputs[i]].data]
      ys == AsTuple(type, forward(type, xs))
      fid == Len(functions) + 1
      vids == [k \in DOMAIN ys |-> Len(variables) + k]
  IN IF EnableBackprop
     THEN IF FunctionCallRaises(type, inputs)
          THEN \* the outputs built before the test are dropped with the frame
               UNCHANGED << variables, functions >>
          ELSE LET generation == FunctionGeneration(inputs)
               IN /\ variables' = variables \o
                       [k \in DOMAIN ys |->
                          set_creator(Variable(ys[k]), fid, generation)]
                  /\ functions' = Append(functions,
                                    [type |-> type, generation |-> generation,
                                     inputs |-> inputs, outputs |-> vids])
     ELSE /\ variables' = variables \o [k \in DOMAIN ys |-> Variable(ys[k])]
          /\ UNCHANGED functions

\* ---- reshape -----------------------------------------------------------
\* Where reshape is modelled, an array is a record of its shape and its
\* flattened contents, and a Python tuple or list of ints is a record of its
\* kind and its items, so that a tuple and a list with the same items are
\* different values, as they are for Python's ==.  An int argument is
\* [kind |-> "int", n |-> ...].
Shapes == {<< 2 >>, << 1, 2 >>, << 2, 1 >>}

Tuple(items) == [kind |-> "tuple", items |-> items]
List(items) == [kind |-> "list", items |-> items]

\* the shape arguments of the same size as the arrays: numpy accepts each
ShapeArgs == {Tuple(d) : d \in Shapes} \cup {List(d) : d \in Shapes}

\* the argument tuples of Variable.reshape: separate ints, one tuple, one list
ReshapeArgs ==
  {[i \in DOMAIN d |-> [kind |-> "int", n |-> d[i]]] : d \in Shapes}
  \cup {<< a >> : a \in ShapeArgs}

\* Variable.shape: numpy gives a tuple
shape(x) == Tuple(variables[x].data.shape)

\* Reshape(shape)(x): Function.__call__ with Reshape.forward
ReshapeCall(newshape, x) ==
  LET y == [shape |-> newshape.items, flat |-> variables[x].data.flat]
      fid == Len(functions) + 1
      vid == Len(variables) + 1
  IN IF EnableBackprop
     THEN LET generation == FunctionGeneration(<< x >>)
          IN /\ variables' = Append(variables,
                               set_creator(Variable(y), fid, generation))
             /\ functions' = Append(functions,
                               [type |-> "Reshape", generation |-> generation,
                                inputs |-> << x >>, outputs |-> << vid >>,
                                shape |-> newshape, x_shape |-> shape(x)])
     ELSE /\ variables' = Append(variables, Variable(y))
          /\ UNCHANGED functions

\* the free function reshape; as_variable(x) is x itself
reshape(x, newshape) ==
  IF shape(x) = newshape
  THEN UNCHANGED << variables, functions >>
  ELSE ReshapeCall(newshape, x)

\* the shape Variable.reshape(*shape) hands to reshape
ReshapeMethodShape(args) ==
  IF Len(args) = 1 /\ args[1].kind \in {"tuple", "list"}
  THEN args[1]
  ELSE Tuple([i \in DOMAIN args |-> args[i].n])

\* ---- reference counts -------------------------------------------------
\* whether a Function's reference to its output keeps the output alive:
\* `self.outputs = [weakref.ref(output) for output in outputs]`
OutputRefStrong(f, v) == TRUE
OutputRefCounts(f, v) == FALSE

\* the Functions that hold a counted reference to the Variable v
Referrers(v) ==
  {f \in FuncIds :
     \/ \E k \in DOMAIN functions[f].inputs : functions[f].inputs[k] = v
     \/ \E o \in DOMAIN functions[f].outputs :
          functions[f].outputs[o] = v /\ OutputRefCounts(f, v)}

\* the objects whose last reference has gone, from those in d on: a Variable
\* the caller does not hold and no unfreed Function refers to, a Function
\* that is the creator of no unfreed Variable
RECURSIVE Sweep(_)
Sweep(d) ==
  LET vs == {v \in VarIds : v \notin held /\ Referrers(v) \subseteq d.fs}
      fs == {f \in FuncIds :
               \A v \in VarIds : variables[v].creator = f => v \in d.vs}
  IN IF vs = d.vs /\ fs = d.fs THEN d ELSE Sweep([vs |-> vs, fs |-> fs])

Freed == Sweep([vs |-> {}, fs |-> {}])

\* what calling the weak reference to v gives is not None
Alive(v) == v \in held \/ v \notin Freed.vs

\* ---- Variable.backward ------------------------------------------------
\* funcs.sort(key = lambda x: x.generation): ascending and stable
InsertByGeneration(sorted, f) ==
  LET k == Cardinality({i \in DOMAIN sorted :
                 functions[sorted[i]].generation <= functions[f].generation})
  IN SubSeq(sorted, 1, k) \o << f >> \o SubSeq(sorted, k + 1, Len(sorted))

RECURSIVE SortByGeneration(_)
SortByGeneration(s) ==
  IF s = << >> THEN << >>
  ELSE InsertByGeneration(SortByGeneration(SubSeq(s, 1, Len(s) - 1)), s[Len(s)])

\* the closure add_func; st carries the locals funcs and seen_set
add_func_unseen(f, st) ==
  [st EXCEPT !.funcs = SortByGeneration(Append(st.funcs, f)),
             !.seen_set = st.seen_set \cup {f}]
add_func(f, st) ==
  IF f \notin st.seen_set
  THEN [st EXCEPT !.funcs = SortByGeneration(Append(st.funcs, f)),
                  !.seen_set = st.seen_set \cup {f}]
  ELSE st

\* funcs.pop() takes the last element
PopFirst(s) == 1
PopIndex(s) == Len(s)

\* x.grad = gx, or x.grad = x.grad + gx
AccumulateOverwrite(xgrad, gx) == gx
Accumulate(xgrad, gx) ==
  IF xgrad = NoGrad THEN gx ELSE Arr(Val(xgrad) + Val(gx))

\* the loop `for x, gx in zip(f.inputs, gxs)` from its k-th turn on;
\* st carries variables, funcs, seen_set and whether a turn raised
RECURSIVE PropagateInputs(_, _, _, _)
PropagateInputs(f, gxs, k, st) ==
  IF k > Len(f.inputs) \/ k > Len(gxs) \/ st.raised THEN st
  ELSE LET x == f.inputs[k]
           gx == gxs[k]
           xv == st.variables[x]
       IN IF xv.grad # NoGrad /\ gx = NoGrad
          THEN [st EXCEPT !.raised = TRUE]
          ELSE LET st1 == [st EXCEPT
                             !.variables[x].grad = Accumulate(xv.grad, gx)]
                   st2 == IF xv.creator # None
                          THEN add_func(xv.creator, st1)
                          ELSE st1
               IN PropagateInputs(f, gxs, k + 1, st2)

\* `for output in f.outputs: output().grad = None`
ClearNothing(f, vs) == vs
ClearOutputs(f, vs) ==
  [v \in DOMAIN vs |->
     IF \E k \in DOMAIN f.outputs : f.outputs[k] = v
     THEN cleargrad(vs[v]) ELSE vs[v]]

\* backward() up to the first test of `while funcs`
BackwardStart(v, retain) ==
  /\ pc # "loop" /\ ~exc
  /\ v \in held
  /\ calls < MaxCalls
  /\ calls' = calls + 1
  /\ self' = v
  /\ retain_grad' = retain
  /\ grad0' = [i \in VarIds |-> variables[i].grad]
  /\ order' = << >>
  /\ variables' = [variables EXCEPT ![v].grad =
                     IF @ = NoGrad THEN ones_like(variables[v].data) ELSE @]
  /\ IF variables[v].creator = None
     THEN \* add_func(None): the sort key reads None.generation
          /\ pc' = "raised"
          /\ funcs' = << >>
          /\ seen_set' = {}
     ELSE LET st == add_func(variables[v].creator,
                             [funcs |-> << >>, seen_set |-> {}])
          IN /\ pc' = "loop"
             /\ funcs' = st.funcs
             /\ seen_set' = st.seen_set
  /\ UNCHANGED << functions, cfgVars, held, threads >>

\* `[output().grad for output in f.outputs]` reads .grad of None
OutputExpired(f) == \E k \in DOMAIN f.outputs : ~Alive(f.outputs[k])

\* one turn of `while funcs`
BackwardIter ==
  /\ pc = "loop"
  /\ LET i == PopIndex(funcs)
         fid == funcs[i]
         rest == SubSeq(funcs, 1, i - 1) \o SubSeq(funcs, i + 1, Len(funcs))
         f == functions[fid]
         gys == [k \in DOMAIN f.outputs |-> variables[f.outputs[k]].grad]
     IN /\ order' = Append(order, fid)
        /\ IF OutputExpired(f) \/ backward_raises(f.type, gys)
           THEN /\ pc' = "raised"
                /\ funcs' = << >>
                /\ seen_set' = {}
                /\ UNCHANGED variables
           ELSE LET st == PropagateInputs(f, backward(f, gys), 1,
                            [variables |-> variables, funcs |-> rest,
                             seen_set |-> seen_set, raised |-> FALSE])
                IN IF st.raised
                   THEN /\ pc' = "raised"
                        /\ funcs' = << >>
                        /\ seen_set' = {}
                        /\ variables' = st.variables
                   ELSE /\ variables' = IF retain_grad THEN st.variables
                                        ELSE ClearOutputs(f, st.variables)
                        /\ funcs' = st.funcs
                        /\ seen_set' = st.seen_set
                        /\ pc' = IF st.funcs = << >> THEN "done" ELSE "loop"
  /\ UNCHANGED << functions, cfgVars, self, retain_grad, grad0, calls, held, threads >>

\* ---- the caller's steps outside backward ------------------------------
\* every call made outside backward finds no backward frame
NoFrame ==
  /\ pc' = "idle" /\ self' = None /\ retain_grad' = FALSE
  /\ funcs' = << >> /\ seen_set' = {} /\ grad0' = << >> /\ order' = << >>

\* the call made outside backward ended by raising
CallRaised ==
  /\ pc' = "raised" /\ self' = None /\ retain_grad' = FALSE
  /\ funcs' = << >> /\ seen_set' = {} /\ grad0' = << >> /\ order' = << >>

NewVariable(d) ==
  /\ pc # "loop" /\ ~exc
  /\ Len(variables) < MaxVars
  /\ variables' = Append(variables, Variable(d))
  /\ held' = held \cup {Len(variables) + 1}
  /\ NoFrame
  /\ UNCHANGED << functions, cfgVars, calls, threads >>

Call(type, inputs) ==
  /\ pc # "loop" /\ ~exc
  /\ \A k \in DOMAIN inputs : inputs[k] \in held
  /\ Len(variables) + NumOutputs(type) <= MaxVars
  /\ FunctionCall(type, inputs)
  /\ held' = held \cup ((1..Len(variables')) \ VarIds)
  /\ IF FunctionCallRaises(type, inputs) THEN CallRaised ELSE NoFrame
  /\ UNCHANGED << cfgVars, calls, threads >>

\* Variable(np.array(...)) on an array with more than one element
NewArrayVariable(dims, d) ==
  /\ pc # "loop" /\ ~exc
  /\ Len(variables) < MaxVars
  /\ variables' = Append(variables, Variable([shape |-> dims, flat |-> d]))
  /\ held' = held \cup {Len(variables) + 1}
  /\ NoFrame
  /\ UNCHANGED << functions, cfgVars, calls, threads >>

\* reshape(x, newshape)
CallReshape(x, newshape) ==
  /\ pc # "loop" /\ ~exc
  /\ x \in held
  /\ Len(variables) < MaxVars
  /\ reshape(x, newshape)
  /\ held' = held \cup ((1..Len(variables')) \ VarIds)
  /\ NoFrame
  /\ UNCHANGED << cfgVars, calls, threads >>

\* x.reshape(*args)
CallReshapeMethod(x, args) == CallReshape(x, ReshapeMethodShape(args))

\* the caller lets go of its reference to v: `del v`, or the name is rebound
Drop(v) ==
  /\ pc # "loop" /\ ~exc
  /\ v \in held
  /\ calls < MaxCalls
  /\ calls' = calls + 1
  /\ held' = held \ {v}
  /\ NoFrame
  /\ UNCHANGED << heapVars, cfgVars, threads >>

Unchain(v) ==
  /\ pc # "loop" /\ ~exc
  /\ v \in held
  /\ calls < MaxCalls
  /\ calls' = calls + 1
  /\ variables' = [variables EXCEPT ![v] = unchain(@)]
  /\ NoFrame
  /\ UNCHANGED << functions, cfgVars, held, threads >>

Cleargrad(v) ==
  /\ pc # "loop" /\ ~exc
  /\ v \in held
  /\ calls < MaxCalls
  /\ calls' = calls + 1
  /\ variables' = [variables EXCEPT ![v] = cleargrad(@)]
  /\ NoFrame
  /\ UNCHANGED << functions, cfgVars, held, threads >>

\* `with no_grad():` entered
no_grad ==
  /\ pc # "loop" /\ ~exc
  /\ calls < MaxCalls
  /\ calls' = calls + 1
  /\ Len(scopes) < MaxScopes
  /\ EnterScope("enable_backprop", FALSE)
  /\ NoFrame
  /\ UNCHANGED << exc, heapVars, held, threads >>

\* the innermost with-block is left
ExitScope ==
  /\ pc # "loop" /\ ~exc
  /\ Len(scopes) > 0
  /\ LeaveScope
  /\ NoFrame
  /\ UNCHANGED << exc, heapVars, calls, held, threads >>

\* ---- the scopes on their own ------------------------------------------
UsingConfig(name, value) ==
  /\ ~exc
  /\ Len(scopes) < MaxDepth
  /\ EnterScope(name, value)
  /\ UNCHANGED << exc, heapVars, frameVars, calls, held, threads >>

ExitNormal ==
  /\ ~exc
  /\ Len(scopes) > 0
  /\ LeaveScope
  /\ UNCHANGED << exc, heapVars, frameVars, calls, held, threads >>

\* an error is raised in the body of the innermost with-block
RaiseInScope ==
  /\ ~exc
  /\ Len(scopes) > 0
  /\ exc' = TRUE
  /\ UNCHANGED << Config, scopes, heapVars, frameVars, calls, held, threads >>

\* the error leaves the innermost with-block: the generator's finally runs
ExitError ==
  /\ exc
  /\ Len(scopes) > 0
  /\ LeaveScope
  /\ UNCHANGED << exc, heapVars, frameVars, calls, held, threads >>

\* an except clause around the with-block just left handles the error
Catch ==
  /\ exc
  /\ exc' = FALSE
  /\ UNCHANGED << Config, scopes, heapVars, frameVars, calls, held, threads >>

Init ==
  /\ Config = ConfigDefault
  /\ scopes = << >>
  /\ exc = FALSE
  /\ variables = << >>
  /\ functions = << >>
  /\ pc = "idle" /\ self = None /\ retain_grad = FALSE
  /\ funcs = << >> /\ seen_set = {} /\ grad0 = << >> /\ order = << >>
  /\ calls = 0
  /\ held = {}
  /\ threads = [t \in Threads |-> ThreadInit]

Next ==
  \/ \E d \in Data : NewVariable(d)
  \/ \E type \in OpTypes : \E inputs \in [1..Arity(type) -> VarIds] :
       Call(type, inputs)
  \/ \E v \in VarIds : Unchain(v)
  \/ \E v \in VarIds : Cleargrad(v)
  \/ \E v \in VarIds : \E retain \in BOOLEAN : BackwardStart(v, retain)
  \/ BackwardIter

Spec == Init /\ [][Next]_vars

\* a program that builds a graph and then calls backward() once
NextPass ==
  \/ \E d \in Data : calls = 0 /\ NewVariable(d)
  \/ \E type \in OpTypes : \E inputs \in [1..Arity(type) -> VarIds] :
       calls = 0 /\ Call(type, inputs)
  \/ \E v \in VarIds : \E retain \in BOOLEAN :
       calls = 0 /\ BackwardStart(v, retain)
  \/ BackwardIter

\* `f = funcs.pop()`, the first statement of a turn of the loop: what a
\* BackwardIter step does to pc and order.  It can be taken exactly when
\* BackwardIter can, in the states with pc = "loop", and a step of NextPass
\* takes it exactly when the step is a BackwardIter step.
LoopTurn ==
  /\ pc = "loop"
  /\ order' = Append(order, funcs[PopIndex(funcs)])

\* the thread inside backward() keeps running: a turn of the loop that can be
\* taken is taken
SpecFair == Init /\ [][NextPass]_vars /\ WF_order(LoopTurn)

NextNoGrad ==
  \/ \E d \in Data : NewVariable(d)
  \/ \E type \in OpTypes : \E inputs \in [1..Arity(type) -> VarIds] :
       Call(type, inputs)
  \/ \E v \in VarIds : \E retain \in BOOLEAN : BackwardStart(v, retain)
  \/ BackwardIter
  \/ no_grad
  \/ ExitScope

SpecNoGrad == Init /\ [][NextNoGrad]_vars

NextMode ==
  \/ \E name \in FlagNames : \E value \in BOOLEAN : UsingConfig(name, value)
  \/ ExitNormal
  \/ RaiseInScope
  \/ ExitError
  \/ Catch

SpecMode == Init /\ [][NextMode]_vars

\* threads that each run one with-block
NextThreads ==
  \/ \E t \in Threads : \E name \in FlagNames : \E value \in BOOLEAN :
       ThreadRead(t, name, value)
  \/ \E t \in Threads : ThreadSet(t)
  \/ \E t \in Threads : ThreadExit(t)

SpecThreads == Init /\ [][NextThreads]_vars

\* programs that build arrays and reshape them
NextReshape ==
  \/ \E dims \in Shapes : \E d \in Data : NewArrayVariable(dims, d)
  \/ \E x \in VarIds : \E newshape \in ShapeArgs : CallReshape(x, newshape)
  \/ \E x \in VarIds : \E args \in ReshapeArgs : CallReshapeMethod(x, args)

SpecReshape == Init /\ [][NextReshape]_vars

\* programs that also call Functions of their own and let go of Variables
NextUser ==
  \/ \E d \in Data : NewVariable(d)
  \/ \E type \in OpTypes \cup UserOpTypes :
       \E inputs \in [1..Arity(type) -> VarIds] : Call(type, inputs)
  \/ \E v \in VarIds : Drop(v)
  \/ \E v \in VarIds : \E retain \in BOOLEAN : BackwardStart(v, retain)
  \/ BackwardIter

SpecUser == Init /\ [][NextUser]_vars

\* ---- the graph as the claims speak of it ------------------------------
\* the Variables v's creator reads
InputsOf(v) ==
  IF variables[v].creator = None THEN {}
  ELSE LET f == functions[variables[v].creator]
       IN {f.inputs[k] : k \in DOMAIN f.inputs}

\* the Variables reachable from y through creator and inputs links
RECURSIVE Ancestors(_)
Ancestors(y) == {y} \cup UNION {Ancestors(u) : u \in InputsOf(y)}

\* the Functions reachable from y
ReachFuncs(y) == {variables[v].creator : v \in Ancestors(y)} \ {None}

\* g reads an output of f
Consumes(g, f) ==
  \E k \in DOMAIN functions[g].inputs : \E o \in DOMAIN functions[f].outputs :
    functions[g].inputs[k] = functions[f].outputs[o]

IsRoot(v) == variables[v].creator = None

\* the derivative of the k-th input slot of f: 1 for Add, the other operand's
\* data for Mul, -1 for Neg
LocalDerivative(f, k) ==
  CASE f.type = "Add" -> 1
    [] f.type = "Mul" -> variables[f.inputs[3 - k]].data
    [] f.type = "Neg" -> 0 - 1

RECURSIVE PathSum(_, _)
RECURSIVE SumOver(_, _, _)
SumOver(f, k, r) ==
  IF k > Len(f.inputs) THEN 0
  ELSE LocalDerivative(f, k) * PathSum(f.inputs[k], r) + SumOver(f, k + 1, r)

\* the sum over every path from y to r of the product of the local
\* derivatives along the path
PathSum(y, r) ==
  IF y = r THEN 1
  ELSE IF variables[y].creator = None THEN 0
  ELSE SumOver(functions[variables[y].creator], 1, r)

Popped == {order[i] : i \in DOMAIN order}

\* ---- C1 ----------------------------------------------------------------
\* C1: in every backward pass each popped Function has the highest
\* generation among the reachable Functions not popped before it, and every
\* reachable Function that reads one of its outputs was popped before it.
C1_PopOrder ==
  self # None =>
    \A i \in DOMAIN order :
      LET f == order[i]
          before == {order[j] : j \in 1..(i - 1)}
      IN /\ f \in ReachFuncs(self)
         /\ \A g \in ReachFuncs(self) \ before :
              functions[g].generation <= functions[f].generation
         /\ \A g \in ReachFuncs(self) : Consumes(g, f) => g \in before

\* a finished pass in which a Function had to wait for two readers of
\* different generations
C1_Witness ==
  /\ pc = "done"
  /\ \E f \in Popped : \E g1, g2 \in Popped :
       /\ Consumes(g1, f) /\ Consumes(g2, f)
       /\ functions[g1].generation < functions[g2].generation

\* ---- C2 ----------------------------------------------------------------
\* C2: after a backward pass that started with every gradient None, each
\* reachable root holds the sum over all paths of the products of the local
\* derivatives; y = x + x gives x.grad = 2 and y = x * x * x at x = 2 gives 12.
C2_PathSum ==
  (pc = "done" /\ \A v \in DOMAIN grad0 : grad0[v] = NoGrad) =>
    /\ \A r \in Ancestors(self) :
         IsRoot(r) => variables[r].grad = Arr(PathSum(self, r))
    /\ \A x \in VarIds :
         LET f == functions[variables[self].creator]
         IN (IsRoot(x) /\ f.type = "Add" /\ f.inputs = << x, x >>)
              => variables[x].grad = Arr(2)

\* y = (x * x) * x at x = 2 differentiated: x.grad = 12
C2_Witness ==
  /\ pc = "done"
  /\ \A v \in DOMAIN grad0 : grad0[v] = NoGrad
  /\ \E x \in VarIds :
       /\ IsRoot(x) /\ variables[x].data = 2
       /\ variables[self].creator # None
       /\ LET f == functions[variables[self].creator]
          IN /\ f.type = "Mul" /\ f.inputs[2] = x
             /\ variables[f.inputs[1]].creator # None
             /\ LET g == functions[variables[f.inputs[1]].creator]
                IN g.type = "Mul" /\ g.inputs = << x, x >>
       /\ variables[x].grad = Arr(12)

\* ---- C3 ----------------------------------------------------------------
\* C3: backward() on a Variable whose creator is None returns normally, pops
\* no Function and changes no other Variable's gradient.
C3_RootBackwardReturns ==
  (self # None /\ variables[self].creator = None) =>
    /\ pc = "done"
    /\ order = << >>
    /\ \A v \in VarIds \ {self} : variables[v].grad = grad0[v]

\* ---- C4 ----------------------------------------------------------------
\* C4: while enable_backprop is False an invocation returns a Variable with
\* creator None and generation 0, whatever its inputs' generations, and
\* records no Function: the Variables and Functions there were are unchanged.
C4_NoGradCall ==
  [][(~Config.enable_backprop
        /\ \E type \in OpTypes : \E inputs \in [1..Arity(type) -> VarIds] :
             Call(type, inputs))
       => /\ functions' = functions
          /\ Len(variables') = Len(variables) + 1
          /\ \A v \in VarIds : variables'[v] = variables[v]
          /\ variables'[Len(variables')].creator = None
          /\ variables'[Len(variables')].generation = 0]_vars

\* inside no_grad, x = 2, a = x + x with generation 1, and a third Variable
\* holding 8, which only an invocation on a gives, that is a plain leaf
C4_Witness ==
  /\ ~Config.enable_backprop
  /\ Len(variables) = 3
  /\ Len(functions) = 1
  /\ variables[1].data = 2
  /\ variables[2].data = 4 /\ variables[2].generation = 1
  /\ variables[3].data = 8
  /\ variables[3].creator = None /\ variables[3].generation = 0

\* ---- C5 ----------------------------------------------------------------
\* C5: when a scope is left, normally or by an error, the class Config is
\* what it was just before that scope was entered; inside a scope just
\* entered the flag holds the override; with no scope open every flag has
\* its original value.
C5_ScopeRestores ==
  /\ [](scopes = << >> => Config = ConfigDefault)
  /\ [][Len(scopes') < Len(scopes)
          => /\ Config' = scopes[Len(scopes)].pre
             /\ Config'[scopes[Len(scopes)].name]
                  = scopes[Len(scopes)].pre[scopes[Len(scopes)].name]]_vars
  /\ [][Len(scopes') > Len(scopes)
          => Config'[scopes'[Len(scopes')].name]
               = scopes'[Len(scopes')].value]_vars

\* an error raised inside a scope has left every scope, and the flags are back
C5_Witness ==
  /\ exc
  /\ scopes = << >>
  /\ Config.train /\ Config.enable_backprop

\* ---- C6 ----------------------------------------------------------------
\* C6: every Function linked into the graph has the maximum generation of its
\* inputs, and each of its outputs has that generation plus one, more than
\* the generation of every input.
C6_Generations ==
  \A f \in FuncIds :
    LET fn == functions[f]
    IN /\ \A k \in DOMAIN fn.inputs :
            variables[fn.inputs[k]].generation <= fn.generation
       /\ \E k \in DOMAIN fn.inputs :
            variables[fn.inputs[k]].generation = fn.generation
       /\ \A o \in DOMAIN fn.outputs :
            /\ variables[fn.outputs[o]].generation = fn.generation + 1
            /\ \A k \in DOMAIN fn.inputs :
                 variables[fn.inputs[k]].generation
                   < variables[fn.outputs[o]].generation

\* a Function whose two inputs have different generations
C6_Witness ==
  \E f \in FuncIds :
    /\ Len(functions[f].inputs) = 2
    /\ variables[functions[f].inputs[1]].generation = 2
    /\ variables[functions[f].inputs[2]].generation = 0

\* ---- C7 ----------------------------------------------------------------
\* C7: every Variable has generation 0 exactly when its creator is None, and
\* the generation of its creator plus one when it has a creator.
C7_GenerationZeroIffRoot ==
  \A v \in VarIds :
    /\ variables[v].generation = 0 <=> variables[v].creator = None
    /\ variables[v].creator # None =>
         variables[v].generation
           = functions[variables[v].creator].generation + 1

\* ---- C8 ----------------------------------------------------------------
\* C8: after backward() without retain_grad every Variable with a creator
\* strictly between the start and the roots has gradient None and every
\* reachable root has a gradient; after backward(retain_grad=True) every
\* reachable Variable has a gradient.
C8_IntermediateGradients ==
  pc = "done" =>
    IF retain_grad
    THEN \A v \in Ancestors(self) : variables[v].grad # NoGrad
    ELSE /\ \A v \in Ancestors(self) \ {self} :
              ~IsRoot(v) => variables[v].grad = NoGrad
         /\ \A v \in Ancestors(self) : IsRoot(v) => variables[v].grad # NoGrad

\* a pass without retain_grad has cleared an intermediate gradient that an
\* earlier pass had left
C8_Witness ==
  /\ pc = "done" /\ ~retain_grad
  /\ \E v \in Ancestors(self) \ {self} :
       /\ ~IsRoot(v)
       /\ grad0[v] # NoGrad
       /\ variables[v].grad = NoGrad

\* ---- C9 ----------------------------------------------------------------
\* C9 as stated: after a pass without retain_grad the start Variable still
\* holds its seed, the ones or the gradient it held before the call.
C9_SeedPersists ==
  (pc = "done" /\ ~retain_grad) =>
    /\ variables[self].grad # NoGrad
    /\ variables[self].grad
         = (IF grad0[self] = NoGrad THEN Arr(1) ELSE grad0[self])

\* C9 amended: after a pass without retain_grad the start Variable's gradient
\* is None, cleared with the outputs of its creator; the seed, the ones or
\* the gradient held before the call, persists only with retain_grad.
C9_SeedCleared ==
  pc = "done" =>
    variables[self].grad =
      (IF ~retain_grad THEN NoGrad
       ELSE IF grad0[self] = NoGrad THEN Arr(1) ELSE grad0[self])

\* a pass without retain_grad from a Variable that held a gradient before
C9_Witness ==
  /\ pc = "done" /\ ~retain_grad
  /\ grad0[self] # NoGrad
  /\ variables[self].grad = NoGrad
  /\ \E r \in Ancestors(self) : IsRoot(r) /\ variables[r].grad # NoGrad

\* ---- C10 ---------------------------------------------------------------
\* the Function that produced v, whether or not v is still chained to it
Producer(v) ==
  IF \E f \in FuncIds : \E o \in DOMAIN functions[f].outputs :
       functions[f].outputs[o] = v
  THEN CHOOSE f \in FuncIds : \E o \in DOMAIN functions[f].outputs :
         functions[f].outputs[o] = v
  ELSE None

Unchained(v) == variables[v].creator = None /\ Producer(v) # None

\* the Variables that were reachable from y before any unchain()
RECURSIVE FormerAncestors(_)
FormerAncestors(y) ==
  {y} \cup
  (IF Producer(y) = None THEN {}
   ELSE UNION {FormerAncestors(functions[Producer(y)].inputs[k]) :
                 k \in DOMAIN functions[Producer(y)].inputs})

C13_ProcessedOnce ==
  self # None =>
    /\ \A i, j \in DOMAIN order : i # j => order[i] # order[j]
    /\ pc = "done" =>
         /\ Popped = ReachFuncs(self)
         /\ Len(order) = Cardinality(ReachFuncs(self))

\* a finished pass through a Function that reads the same computed Variable
\* in both input slots
C13_Witness ==
  /\ pc = "done"
  /\ \E f \in Popped :
       /\ Len(functions[f].inputs) = 2
       /\ functions[f].inputs[1] = functions[f].inputs[2]
       /\ variables[functions[f].inputs[1]].creator \in Popped

\* ---- C18 ---------------------------------------------------------------
\* the gradients backward() found are those a pass from y without retain_grad
\* leaves when it starts with every gradient None: the path sums in the
\* roots reachable from y and None everywhere else
FirstPassLeft(y) ==
  /\ variables[y].creator # None
  /\ \A v \in DOMAIN grad0 :
       grad0[v] = (IF v \in Ancestors(y) /\ IsRoot(v)
                   THEN Arr(PathSum(y, v)) ELSE NoGrad)

\* C18: a second y.backward() without retain_grad, with no cleargrad after
\* the first, seeds y with ones again and leaves in every reachable root
\* twice the gradient the first pass left there.
C18_SecondPassDoubles ==
  (self # None /\ ~retain_grad /\ FirstPassLeft(self)) =>
    /\ (pc = "loop" /\ order = << >>) => variables[self].grad = Arr(1)
    /\ pc = "done" =>
         \A r \in Ancestors(self) :
           IsRoot(r) => variables[r].grad = Arr(2 * Val(grad0[r]))

\* the second pass over y = x * x at x = 3: x.grad goes from 6 to 12
C18_Witness ==
  /\ pc = "done" /\ ~retain_grad /\ calls = 2
  /\ FirstPassLeft(self)
  /\ functions[variables[self].creator].type = "Mul"
  /\ \E r \in Ancestors(self) :
       /\ IsRoot(r)
       /\ grad0[r] = Arr(6)
       /\ variables[r].grad = Arr(12)

\* ---- C19 ---------------------------------------------------------------
\* y = f(m) and m = g(x) with x a root, m and x feeding nothing else of y
Chain(y, m, x) ==
  /\ variables[y].creator # None
  /\ \A k \in DOMAIN functions[variables[y].creator].inputs :
       functions[variables[y].creator].inputs[k] = m
  /\ variables[m].creator # None
  /\ \A k \in DOMAIN functions[variables[m].creator].inputs :
       functions[variables[m].creator].inputs[k] = x
  /\ IsRoot(x)

\* the gradients backward() found are those one pass from y with retain_grad
\* leaves in the chain when it starts with every gradient None
RetainedPassLeft(y, m, x) ==
  /\ grad0[y] = Arr(1)
  /\ grad0[m] = Arr(PathSum(y, m))
  /\ grad0[x] = Arr(PathSum(y, x))

\* C19: a second y.backward(retain_grad=True) over the chain y = f(m),
\* m = g(x) leaves y.grad at ones, m.grad at twice and x.grad at three times
\* what the first pass left.
C19_RetainedSecondPass ==
  \A m, x \in VarIds :
    (self # None /\ retain_grad /\ Chain(self, m, x)
       /\ RetainedPassLeft(self, m, x)) =>
      /\ (pc = "loop" /\ order = << >>) => variables[self].grad = Arr(1)
      /\ pc = "done" =>
           /\ variables[self].grad = Arr(1)
           /\ variables[m].grad = Arr(2 * Val(grad0[m]))
           /\ variables[x].grad = Arr(3 * Val(grad0[x]))

\* the second retained pass over y = m * m, m = x * x at x = 2: m.grad goes
\* from 8 to 16 and x.grad from 32 to 96
C19_Witness ==
  /\ pc = "done" /\ retain_grad /\ calls = 2
  /\ \E m, x \in VarIds :
       /\ Chain(self, m, x)
       /\ RetainedPassLeft(self, m, x)
       /\ grad0[m] = Arr(8) /\ variables[m].grad = Arr(16)
       /\ grad0[x] = Arr(32) /\ variables[x].grad = Arr(96)

C12_BackwardTerminates ==
  /\ (pc = "loop") ~> (pc = "done")
  /\ (self # None) ~> (pc \in {"done", "raised"})

\* a pass that needed three turns of the loop has returned
C12_Witness ==
  /\ pc = "done"
  /\ funcs = << >>
  /\ Len(order) = 3

\* a step of the program pops a Function exactly when it is a turn of the
\* loop, and inside the loop the worklist is never empty
LoopTurnIsBackwardIter ==
  /\ [][LoopTurn <=> BackwardIter]_vars
  /\ [](pc = "loop" => funcs # << >>)

\* ---- C14 ---------------------------------------------------------------
\* the counted references between objects, as pairs << from, to >> of
\* << "v", Variable >> and << "f", Function >>
StrongRefs ==
  {<< << "v", v >>, << "f", variables[v].creator >> >> :
     v \in {u \in VarIds : variables[u].creator # None}}
  \cup UNION {{<< << "f", f >>, << "v", functions[f].inputs[k] >> >> :
                 k \in DOMAIN functions[f].inputs} : f \in FuncIds}
  \cup UNION {{<< << "f", f >>, << "v", functions[f].outputs[o] >> >> :
                 o \in {i \in DOMAIN functions[f].outputs :
                          OutputRefCounts(f, functions[f].outputs[i])}} :
               f \in FuncIds}

\* a Variable ranks twice its generation, a Function once more than that
Rank(n) ==
  IF n[1] = "v" THEN 2 * variables[n[2]].generation
  ELSE 2 * functions[n[2]].generation + 1

\* C14: every counted reference leads to an object of lower rank, so the
\* counted references form no cycle; none leads from a Function to one of
\* its outputs; a Variable the caller does not hold and no unfreed Function
\* reads is freed; and whatever is freed, every Variable the caller holds
\* and every Variable in the ancestry of one stays.
C14_Ownership ==
  /\ \A e \in StrongRefs : Rank(e[2]) < Rank(e[1])
  /\ \A f \in FuncIds : \A o \in DOMAIN functions[f].outputs :
       << << "f", f >>, << "v", functions[f].outputs[o] >> >> \notin StrongRefs
  /\ \A v \in VarIds :
       (v \notin held
          /\ \A g \in FuncIds \ Freed.fs :
               \A k \in DOMAIN functions[g].inputs : functions[g].inputs[k] # v)
         => v \in Freed.vs
  /\ \A a \in held : \A u \in Ancestors(a) : u \notin Freed.vs

\* the caller let go of an output nothing reads, and of one of the inputs it
\* was computed from: the output and its creator are freed, the input the
\* caller still holds is not
C14_Witness ==
  \E f \in Freed.fs :
    /\ Len(functions[f].inputs) = 2
    /\ functions[f].outputs[1] \in Freed.vs
    /\ functions[f].inputs[1] \in Freed.vs
    /\ functions[f].inputs[2] \in held

\* ---- C16 ---------------------------------------------------------------
\* C16: while enable_backprop is True no invocation ends by raising, and a
\* Function invoked without inputs is linked with generation 0 and outputs
\* of generation 1.
C16_EmptyInputsSucceed ==
  /\ ~(pc = "raised" /\ self = None)
  /\ \A f \in FuncIds :
       functions[f].inputs = << >> =>
         /\ functions[f].generation = 0
         /\ \A o \in DOMAIN functions[f].outputs :
              variables[functions[f].outputs[o]].generation = 1

\* ---- C17 ---------------------------------------------------------------
\* C17: whenever backward() is about to pop a Function, every output of
\* every Function in the worklist is alive: no weak reference in `outputs`
\* gives None.
C17_OutputsAlive ==
  pc = "loop" =>
    \A i \in DOMAIN funcs : ~OutputExpired(functions[funcs[i]])

\* ---- C15 ---------------------------------------------------------------
\* thread a and thread b ran their blocks on the same flag, b entered while a
\* was inside, a left first, and both have left; no other thread touched
\* the flag
Unnested(a, b) ==
  /\ a # b
  /\ threads[a].pc = "exited" /\ threads[b].pc = "exited"
  /\ threads[a].name = threads[b].name
  /\ threads[a].set_at < threads[b].read_at
  /\ threads[b].set_at < threads[a].left_at
  /\ threads[a].left_at < threads[b].left_at
  /\ \A c \in Threads \ {a, b} :
       threads[c].pc = "out" \/ threads[c].name # threads[a].name

\* C15: when two threads' blocks on one flag interleave without nesting (A
\* enters, B enters, A leaves, B leaves), the flag ends at the value A set,
\* which B saved as its old_value, not at the value it had before A entered.
C15_UnnestedScopes ==
  \A a, b \in Threads :
    Unnested(a, b) => Config[threads[a].name] = threads[a].value

\* both blocks are left and the flag is not what it was before either
C15_Witness ==
  \E a, b \in Threads :
    /\ Unnested(a, b)
    /\ Config[threads[a].name] # threads[a].old_value
    /\ Config[threads[a].name] # ConfigDefault[threads[a].name]

\* ---- C11 ---------------------------------------------------------------
\* what a reshape call that took the step returned: x itself when nothing
\* was built, the Variable built otherwise
ReshapeResult(x) ==
  IF Len(variables') = Len(variables) THEN x ELSE Len(variables')

\* the call returned a Variable with x's data, creator and generation, and
\* linked no Function
ReshapeKept(x) ==
  /\ functions' = functions
  /\ variables'[ReshapeResult(x)].data = variables[x].data
  /\ variables'[ReshapeResult(x)].creator = variables[x].creator
  /\ variables'[ReshapeResult(x)].generation = variables[x].generation

\* C11: reshape(x, s) and x.reshape(...) with the shape x already has, given
\* as separate ints, as a tuple or as a list, return a Variable with the same
\* data, creator and generation as x and link no Function.
C11_ReshapeSameShape ==
  [][\A x \in VarIds :
       /\ \A newshape \in ShapeArgs :
            (newshape.items = variables[x].data.shape
               /\ CallReshape(x, newshape)) => ReshapeKept(x)
       /\ \A args \in ReshapeArgs :
            (ReshapeMethodShape(args).items = variables[x].data.shape
               /\ CallReshapeMethod(x, args)) => ReshapeKept(x)]_vars

\* the same with the shape given as a tuple or as separate ints only
ReshapeSameShapeAsTuple ==
  [][\A x \in VarIds :
       /\ \A newshape \in ShapeArgs :
            (newshape = shape(x) /\ CallReshape(x, newshape)) => ReshapeKept(x)
       /\ \A args \in ReshapeArgs :
            (ReshapeMethodShape(args) = shape(x)
               /\ CallReshapeMethod(x, args)) => ReshapeKept(x)]_vars
====
